---------------------------- MODULE Spec2Model ----------------------------
(***************************************************************************)
(* pmixer: a one-shot PulseAudio volume control (src/pmixer.c).            *)
(*                                                                         *)
(* The program is one thread of control.  It blocks in two loops that call *)
(* pa_mainloop_iterate: the connect wait loop of main and iterate(), the   *)
(* pump.  Every callback (state_cb, server_info_cb, sink_info_cb,          *)
(* success_cb) runs inside such a loop iteration.  An action of this model *)
(* is either one loop iteration (one event dispatched with its callback)   *)
(* or the straight-line code between two blocking loops.                   *)
(*                                                                         *)
(* libpulse and the audio server are the environment.  What the model      *)
(* takes from the libpulse API contract is stated where it is used:        *)
(*   - a request function returns NULL unless the context is READY;        *)
(*   - pa_operation_get_state(NULL) is a failed assertion (abort);         *)
(*   - a context that fails cancels its running operations;                *)
(*   - pa_cvolume_inc_clamp / pa_cvolume_dec move the loudest channel by   *)
(*     the step and scale the other channels in proportion, in place.      *)
(***************************************************************************)
EXTENDS Integers, Sequences, FiniteSets, TLC

\* Bounds of the model.
MaxRecords == 2     \* data records one device-info reply may deliver
MaxRuns == 2        \* successive runs of the program against one server

NULL == 0

\* pulse/volume.h, as used at src/pmixer.c:252 and :255
PA_VOLUME_MUTED == 0
PA_VOLUME_NORM == 65536
PA_VOLUME_UI_MAX == 99957
PA_VOLUME_MAX == 2147483647

VARIABLES
    pc,           \* position of main
    state,        \* the global state_t state
    ctx,          \* what pa_context_get_state returns
    command,      \* arguments.command
    priv,         \* struct pmixer_priv: mainloop and context pointers
    op,           \* the pa_operation* of the call in progress (index into ops)
    ops,          \* every operation handle libpulse created in this run
    heap,         \* every allocation made to receive callback output
    sink_name,    \* get_default_sink: char *sink_name (index into heap)
    sink_info,    \* get_sink: struct sink_info *sink_info (index into heap)
    snap,         \* contents of the struct sink_info allocation
    info,         \* main: struct sink_info *info (index into heap)
    snap0,        \* contents of *info when get_default_sink returned it
    nrec,         \* data records delivered to sink_info_cb in this run
    lastRec,      \* the last data record delivered to sink_info_cb
    issued,       \* request calls made to libpulse in this run, in order
    exit,         \* process status: "none" while running
    connOutcome,  \* value of state when the connect wait loop was left
    torn,         \* what teardown did: disconnect, unref, free counts
    srvMute,      \* server: mute flag of the default sink
    srvVolume,    \* server: volume of the default sink
    hist          \* one entry per run started: server mute at start, toggled

vars == <<pc, state, ctx, command, priv, op, ops, heap, sink_name, sink_info,
          snap, info, snap0, nrec, lastRec, issued, exit, connOutcome, torn,
          srvMute, srvVolume, hist>>

\* enum commands (CMD_NOP..CMD_MUTE); "other" is any value outside the enum,
\* which arguments.command can hold because main never initialises it.
Commands == {"CMD_NOP", "CMD_INC", "CMD_DEC", "CMD_MUTE", "other"}

\* pa_context_state_t, plus one value outside the enumeration
CtxStates == {"UNCONNECTED", "CONNECTING", "AUTHORIZING", "SETTING_NAME",
              "READY", "FAILED", "TERMINATED", "UNEXPECTED"}


----------------------------------------------------------------------------
\* Callbacks and pure helpers

\* mutant: a state_cb whose PA_CONTEXT_FAILED case only breaks
state_cb_IgnoreFailed(c, st) ==
    CASE c = "READY" -> "CONNECTED"
      [] OTHER -> st

\* state_cb: the switch on pa_context_get_state.  The default branch is
\* sentinel(): it logs and jumps to the label error, which returns.
state_cb(c, st) ==
    CASE c = "READY" -> "CONNECTED"
      [] c = "FAILED" -> "ERROR"
      [] c \in {"UNCONNECTED", "AUTHORIZING", "SETTING_NAME", "CONNECTING",
                "TERMINATED"} -> st
      [] OTHER -> st

\* mutant: a sink_info_cb without its test of eol
sink_info_cb_IgnoreEol(i, rec, eol) ==
    [index |-> rec.index, mute |-> rec.mute, volume |-> rec.volume]

\* sink_info_cb: writes *(struct sink_info **)raw unless eol != 0
sink_info_cb(i, rec, eol) ==
    IF eol # 0 THEN i
    ELSE [index |-> rec.index, mute |-> rec.mute, volume |-> rec.volume]

\* C's ! on an int
LogicalNot(m) == IF m = 0 THEN 1 ELSE 0

Max(a, b) == IF a >= b THEN a ELSE b
Min(a, b) == IF a <= b THEN a ELSE b

RECURSIVE SeqMax(_)
SeqMax(v) == IF v = <<>> THEN 0 ELSE Max(Head(v), SeqMax(Tail(v)))

\* pa_cvolume_max
pa_cvolume_max(v) == SeqMax(v)

\* floor(a * b / t) as the uint64_t arithmetic of pa_cvolume_scale computes
\* it, by doubling so that no intermediate value leaves 32 bits.
\* MulDivStep: from <<quotient, remainder>> of a * (b \div 2) to that of a * b.
MulDivStep(h, a, b, t) ==
    LET r == 2 * h[2] + (IF b % 2 = 1 THEN a % t ELSE 0)
        q == 2 * h[1] + (IF b % 2 = 1 THEN a \div t ELSE 0)
    IN <<q + (r \div t), r % t>>

\* Returns <<quotient, remainder>>; the half product is bound once.
RECURSIVE MulDivR(_, _, _)
MulDivR(a, b, t) ==
    IF b = 0 THEN <<0, 0>>
    ELSE CHOOSE res \in {MulDivStep(h, a, b, t) :
                             h \in {MulDivR(a, b \div 2, t)}} : TRUE

MulDiv(a, b, t) == MulDivR(a, b, t)[1]

PA_CLAMP_VOLUME(x) == Min(Max(x, PA_VOLUME_MUTED), PA_VOLUME_MAX)

\* pa_cvolume_scale: every channel times max over the loudest channel
pa_cvolume_scale(v, max) ==
    LET t == pa_cvolume_max(v)
    IN IF t <= PA_VOLUME_MUTED
       THEN [c \in DOMAIN v |-> max]
       ELSE [c \in DOMAIN v |-> PA_CLAMP_VOLUME(MulDiv(v[c], max, t))]

\* pa_cvolume_inc_clamp(v, inc, limit)
pa_cvolume_inc_clamp(v, inc, limit) ==
    LET m == pa_cvolume_max(v)
    IN pa_cvolume_scale(v, IF m >= limit - inc THEN limit ELSE m + inc)

\* pa_cvolume_dec(v, dec)
pa_cvolume_dec(v, dec) ==
    LET m == pa_cvolume_max(v)
    IN pa_cvolume_scale(v, IF m <= PA_VOLUME_MUTED + dec
                           THEN PA_VOLUME_MUTED ELSE m - dec)

\* mutant: CMD_INC with PA_VOLUME_MAX for the limit
IncVolume_NoCeiling(v) ==
    pa_cvolume_inc_clamp(v, PA_VOLUME_NORM \div 20, PA_VOLUME_MAX)

\* main, CMD_INC: the vector handed to set_volume
IncVolume(v) == pa_cvolume_inc_clamp(v, PA_VOLUME_NORM \div 20, PA_VOLUME_UI_MAX)

\* mutant: CMD_DEC with a tenth of PA_VOLUME_NORM for the step
DecVolume_Tenth(v) == pa_cvolume_dec(v, PA_VOLUME_NORM \div 10)

\* main, CMD_DEC: the vector handed to set_volume
DecVolume(v) == pa_cvolume_dec(v, PA_VOLUME_NORM \div 20)

\* mutant: CMD_MUTE that always mutes
MuteArg_On(m) == 1

\* main, CMD_MUTE: the flag handed to set_mute
MuteArg(m) == LogicalNot(m)

----------------------------------------------------------------------------
\* The environment: the server's sink and what libpulse may deliver

\* Volume vectors the server's default sink may start with: balanced and
\* unbalanced, below the step, near and above the UI ceiling, all muted.
Volumes == { <<32768>>, <<1000>>, <<98000>>, <<120000>>,
             <<32768, 65536>>, <<0, 0>> }

\* The record the server reports for its default sink
ServerRec == [index |-> 5, mute |-> srvMute, volume |-> srvVolume]

\* Records sink_info_cb may be handed: the default sink, or another sink
Records == {ServerRec, [index |-> 7, mute |-> 1, volume |-> <<65536, 65536>>]}

\* What malloc'ed memory may hold before anything is written to it
Garbage == { [index |-> 99, mute |-> 2, volume |-> <<70000>>],
             [index |-> 0, mute |-> 0, volume |-> <<0>>] }

\* Context states libpulse may report next.  FAILED and TERMINATED are final;
\* once READY the context can only fail (TERMINATED follows the program's
\* own pa_context_disconnect).
CtxNext(c) ==
    CASE c \in {"FAILED", "TERMINATED"} -> {}
      [] c = "READY" -> {"FAILED"}
      [] c = "CONNECTING" -> {"AUTHORIZING", "FAILED", "TERMINATED", "UNEXPECTED"}
      [] c = "AUTHORIZING" -> {"SETTING_NAME", "FAILED", "TERMINATED", "UNEXPECTED"}
      [] c = "SETTING_NAME" -> {"READY", "FAILED", "TERMINATED", "UNEXPECTED"}
      [] OTHER -> {"READY", "FAILED", "TERMINATED"}

----------------------------------------------------------------------------
\* Handles, allocations, teardown

Running(o) == o # NULL /\ ops[o].st = "RUNNING"

\* mutant: a pump that makes one pass and returns
PumpReturns_Early(o) == o # NULL

\* iterate, line 88: the loop is left when the operation is not running
\* (a NULL handle never gets here, see PumpAbort)
PumpReturns(o) == o # NULL /\ ~Running(o)

\* mutant: a call site that forgets pa_operation_unref
Unref_Never(os, o) == os

\* pa_operation_unref(op) after iterate returned
Unref(os, o) == [os EXCEPT ![o].unrefs = @ + 1,
                           ![o].early = @ \/ os[o].st = "RUNNING"]

Finish(os, o, st) == [os EXCEPT ![o].st = st]

\* free(p) behind an "if (p)"
Free(h, p) == IF p = NULL THEN h ELSE [h EXCEPT ![p].frees = @ + 1]

NoTeardown == [disconnect |-> 0, ctx_unref |-> 0, ml_free |-> 0, wild |-> 0]

\* main, lines 259-263: the teardown of the successful path
TeardownOk(st) ==
    [disconnect |-> IF st = "CONNECTED" THEN 1 ELSE 0,
     ctx_unref |-> 1, ml_free |-> 1, wild |-> 0]

\* main, lines 265-274: the label error.  A priv field that was never
\* assigned holds whatever was on the stack: g says whether it reads nonzero.
TeardownError(st, p, g) ==
    [disconnect |-> IF st = "CONNECTED" THEN 1 ELSE 0,
     ctx_unref |-> IF p.context = "obj" THEN 1 ELSE 0,
     ml_free |-> IF p.mainloop = "obj" THEN 1 ELSE 0,
     wild |-> IF p.context = "uninit" /\ g THEN 1 ELSE 0]

\* a request function of libpulse: a handle, or NULL unless the context is READY
NewOp(os, kind) == IF ctx = "READY"
                   THEN Append(os, [kind |-> kind, st |-> "RUNNING",
                                    unrefs |-> 0, early |-> FALSE,
                                    success |-> -1])
                   ELSE os

Request(kind, index, arg) ==
    [kind |-> kind, index |-> index, arg |-> arg, state |-> state]

\* Issue: the call of a request function at one of the four call sites
Issue(kind, index, arg) ==
    /\ ops' = NewOp(ops, kind)
    /\ op' = IF ctx = "READY" THEN Len(ops) + 1 ELSE NULL
    /\ issued' = Append(issued, Request(kind, index, arg))

\* return -1 from main through the label error
ExitError(h, g) ==
    /\ heap' = Free(h, info)
    /\ torn' = TeardownError(state, priv, g)
    /\ ctx' = IF state = "CONNECTED" THEN "TERMINATED" ELSE ctx
    /\ exit' = "-1"
    /\ pc' = "done"

\* return 0 from main
ExitOk ==
    /\ torn' = TeardownOk(state)
    /\ ctx' = IF state = "CONNECTED" THEN "TERMINATED" ELSE ctx
    /\ exit' = "0"
    /\ pc' = "done"

----------------------------------------------------------------------------
\* Init: a process about to enter main, against some server state

NoRec == [index |-> 0, mute |-> 0, volume |-> <<>>]

FreshRun ==
    /\ pc = "main"
    /\ state = "CONNECTING"
    /\ ctx = "UNCONNECTED"
    /\ priv = [mainloop |-> "uninit", context |-> "uninit"]
    /\ op = NULL
    /\ ops = <<>>
    /\ heap = <<>>
    /\ sink_name = NULL
    /\ sink_info = NULL
    /\ snap = NoRec
    /\ info = NULL
    /\ snap0 = NoRec
    /\ nrec = 0
    /\ lastRec = NoRec
    /\ issued = <<>>
    /\ exit = "none"
    /\ connOutcome = "none"
    /\ torn = NoTeardown

Init ==
    /\ FreshRun
    /\ command \in Commands
    /\ srvMute \in {0, 1}
    /\ srvVolume \in Volumes
    /\ hist = <<[mute0 |-> srvMute, toggled |-> FALSE]>>

----------------------------------------------------------------------------
\* main up to the connect wait loop (lines 227-237)

MainSetup ==
    /\ pc = "main"
    /\ \E outcome \in {"no_mainloop", "no_api", "no_context", "ok"}, g \in BOOLEAN :
         LET p == CASE outcome = "no_mainloop" ->
                         [mainloop |-> "NULL", context |-> "uninit"]
                    [] outcome = "no_api" ->
                         [mainloop |-> "obj", context |-> "uninit"]
                    [] outcome = "no_context" ->
                         [mainloop |-> "obj", context |-> "NULL"]
                    [] OTHER -> [mainloop |-> "obj", context |-> "obj"]
         IN /\ priv' = p
            /\ IF outcome = "ok"
               THEN /\ ~g
                    /\ state' = "CONNECTING"
                    /\ ctx' = "CONNECTING"
                    /\ pc' = "connect_wait"
                    /\ UNCHANGED <<torn, exit, heap>>
               ELSE /\ (p.context # "uninit") => ~g
                    /\ heap' = Free(heap, info)
                    /\ torn' = TeardownError(state, p, g)
                    /\ exit' = "-1"
                    /\ pc' = "done"
                    /\ UNCHANGED <<state, ctx>>
    /\ UNCHANGED <<command, op, ops, sink_name, sink_info, snap, info, snap0,
                   nrec, lastRec, issued, connOutcome, srvMute, srvVolume, hist>>

\* one pass of the connect wait loop (lines 239-241): pa_mainloop_iterate
\* dispatches a state change to state_cb
ConnectIterate ==
    /\ pc = "connect_wait"
    /\ state = "CONNECTING"
    /\ \E c \in CtxNext(ctx) :
         /\ ctx' = c
         /\ state' = state_cb(c, state)
    /\ UNCHANGED <<pc, command, priv, op, ops, heap, sink_name, sink_info,
                   snap, info, snap0, nrec, lastRec, issued, exit, connOutcome,
                   torn, srvMute, srvVolume, hist>>

\* mutant: line 242 without its check
ConnectExit_NoCheck ==
    /\ pc = "connect_wait"
    /\ state # "CONNECTING"
    /\ connOutcome' = state
    /\ pc' = "gds_call"
    /\ UNCHANGED <<heap, torn, ctx, exit>>
    /\ UNCHANGED <<state, command, priv, op, ops, sink_name, sink_info, snap,
                   info, snap0, nrec, lastRec, issued, srvMute, srvVolume, hist>>

\* the loop is left; check(state == CONNECTED, ...) (line 242)
ConnectExit ==
    /\ pc = "connect_wait"
    /\ state # "CONNECTING"
    /\ connOutcome' = state
    /\ IF state = "CONNECTED"
       THEN /\ pc' = "gds_call"
            /\ UNCHANGED <<heap, torn, ctx, exit>>
       ELSE ExitError(heap, FALSE)
    /\ UNCHANGED <<state, command, priv, op, ops, sink_name, sink_info, snap,
                   info, snap0, nrec, lastRec, issued, srvMute, srvVolume, hist>>

----------------------------------------------------------------------------
\* get_default_sink and get_sink

PumpPcs == {"gds_iterate", "gs_iterate", "sv_iterate", "sm_iterate"}

\* get_default_sink, line 117: pa_context_get_server_info
ServerInfoIssue ==
    /\ pc = "gds_call"
    /\ Issue("server_info", 0, 0)
    /\ pc' = "gds_iterate"
    /\ UNCHANGED <<state, ctx, command, priv, heap, sink_name, sink_info, snap,
                   info, snap0, nrec, lastRec, exit, connOutcome, torn,
                   srvMute, srvVolume, hist>>

\* iterate, one pass of its loop, at any call site: the context fails,
\* state_cb runs, libpulse cancels the running operation
PumpContextEvent ==
    /\ pc \in PumpPcs
    /\ Running(op)
    /\ \E c \in CtxNext(ctx) :
         /\ ctx' = c
         /\ state' = state_cb(c, state)
         /\ ops' = IF c = "FAILED" THEN Finish(ops, op, "CANCELLED") ELSE ops
    /\ UNCHANGED <<pc, command, priv, op, heap, sink_name, sink_info, snap,
                   info, snap0, nrec, lastRec, issued, exit, connOutcome, torn,
                   srvMute, srvVolume, hist>>

\* iterate(priv, NULL): pa_operation_get_state asserts its argument
PumpAbort ==
    /\ pc \in PumpPcs
    /\ op = NULL
    /\ exit' = "SIGABRT"
    /\ pc' = "done"
    /\ UNCHANGED <<state, ctx, command, priv, op, ops, heap, sink_name,
                   sink_info, snap, info, snap0, nrec, lastRec, issued,
                   connOutcome, torn, srvMute, srvVolume, hist>>

\* iterate in get_default_sink, one pass: the reply arrives, server_info_cb
\* stores strdup(info->default_sink_name) in the slot; strdup may return NULL
ServerInfoReply ==
    /\ pc = "gds_iterate"
    /\ Running(op)
    /\ \E ok \in BOOLEAN :
         IF ok
         THEN /\ heap' = Append(heap, [kind |-> "sink_name", frees |-> 0])
              /\ sink_name' = Len(heap) + 1
         ELSE /\ sink_name' = NULL
              /\ UNCHANGED heap
    /\ ops' = Finish(ops, op, "DONE")
    /\ UNCHANGED <<pc, state, ctx, command, priv, op, sink_info, snap, info,
                   snap0, nrec, lastRec, issued, exit, connOutcome, torn,
                   srvMute, srvVolume, hist>>

\* mutant: get_default_sink without check(sink_name) of line 121
ServerInfoReturn_NoCheck ==
    /\ pc = "gds_iterate"
    /\ PumpReturns(op)
    /\ ops' = Unref(ops, op)
    /\ pc' = "gs_call"
    /\ UNCHANGED <<heap, torn, ctx, exit>>
    /\ UNCHANGED <<state, command, priv, op, sink_name, sink_info, snap, info,
                   snap0, nrec, lastRec, issued, connOutcome, srvMute,
                   srvVolume, hist>>

\* mutant: get_default_sink that keeps its handle while get_sink runs
ServerInfoReturn_NoUnref ==
    /\ pc = "gds_iterate"
    /\ PumpReturns(op)
    /\ IF sink_name = NULL
       THEN ExitError(heap, FALSE) /\ ops' = Unref(ops, op)
       ELSE /\ pc' = "gs_call"
            /\ UNCHANGED <<ops, heap, torn, ctx, exit>>
    /\ UNCHANGED <<state, command, priv, op, sink_name, sink_info, snap, info,
                   snap0, nrec, lastRec, issued, connOutcome, srvMute,
                   srvVolume, hist>>

\* get_default_sink, lines 119-122, after the pump returned: unref,
\* check(sink_name).  A failed check returns NULL to main, whose check fails
\* in turn (line 244).
ServerInfoReturn ==
    /\ pc = "gds_iterate"
    /\ PumpReturns(op)
    /\ ops' = Unref(ops, op)
    /\ IF sink_name = NULL
       THEN ExitError(heap, FALSE)
       ELSE /\ pc' = "gs_call"
            /\ UNCHANGED <<heap, torn, ctx, exit>>
    /\ UNCHANGED <<state, command, priv, op, sink_name, sink_info, snap, info,
                   snap0, nrec, lastRec, issued, connOutcome, srvMute,
                   srvVolume, hist>>

\* get_sink, lines 95-98: malloc, check_mem, the device-info request.  When
\* malloc fails get_sink returns NULL and the check of line 124 fails.
SinkInfoIssue ==
    /\ pc = "gs_call"
    /\ \E ok \in BOOLEAN :
         IF ~ok
         THEN /\ ExitError(Free(heap, sink_name), FALSE)
              /\ UNCHANGED <<op, ops, sink_info, snap, issued>>
         ELSE \E junk \in Garbage :
              /\ heap' = Append(heap, [kind |-> "sink_info", frees |-> 0])
              /\ sink_info' = Len(heap) + 1
              /\ snap' = junk
              /\ Issue("sink_info", 0, 0)
              /\ pc' = "gs_iterate"
              /\ UNCHANGED <<ctx, exit, torn>>
    /\ UNCHANGED <<state, command, priv, sink_name, info, snap0, nrec, lastRec,
                   connOutcome, srvMute, srvVolume, hist>>

\* iterate in get_sink, one pass: sink_info_cb is called with a record
\* (eol = 0), with the end of the list (eol > 0) or with an error (eol < 0);
\* the operation is done after the last call
SinkInfoEvent ==
    /\ pc = "gs_iterate"
    /\ Running(op)
    /\ \E eol \in {0, 1, -1}, rec \in Records :
         /\ eol = 0 => nrec < MaxRecords
         /\ eol # 0 => rec = ServerRec
         /\ snap' = sink_info_cb(snap, rec, eol)
         /\ nrec' = IF eol = 0 THEN nrec + 1 ELSE nrec
         /\ lastRec' = IF eol = 0 THEN rec ELSE lastRec
         /\ ops' = IF eol = 0 THEN ops ELSE Finish(ops, op, "DONE")
    /\ UNCHANGED <<pc, state, ctx, command, priv, op, heap, sink_name,
                   sink_info, info, snap0, issued, exit, connOutcome, torn,
                   srvMute, srvVolume, hist>>

\* get_sink, lines 100-104, get_default_sink, lines 124-126, and main, lines
\* 244-245: unref, check(sink_info), free(sink_name), info = the snapshot
SinkInfoReturn ==
    /\ pc = "gs_iterate"
    /\ PumpReturns(op)
    /\ ops' = Unref(ops, op)
    /\ IF sink_info = NULL
       THEN /\ ExitError(Free(heap, sink_name), FALSE)
            /\ UNCHANGED <<info, snap0>>
       ELSE /\ heap' = Free(heap, sink_name)
            /\ info' = sink_info
            /\ snap0' = snap
            /\ pc' = "switch"
            /\ UNCHANGED <<ctx, exit, torn>>
    /\ UNCHANGED <<state, command, priv, op, sink_name, sink_info, snap, nrec,
                   lastRec, issued, connOutcome, srvMute, srvVolume, hist>>

----------------------------------------------------------------------------
\* The command switch of main, set_volume and set_mute

\* mutant: a switch whose default label sits on the CMD_MUTE case
CommandCase_Default(cmd) ==
    CASE cmd = "CMD_INC" -> "inc"
      [] cmd = "CMD_DEC" -> "dec"
      [] OTHER -> "mute"

\* main, line 247: the case of the switch a command value selects
CommandCase(cmd) ==
    CASE cmd = "CMD_MUTE" -> "mute"
      [] cmd = "CMD_INC" -> "inc"
      [] cmd = "CMD_DEC" -> "dec"
      [] OTHER -> "none"

\* mutant: a CMD_MUTE case that also flips info->mute in place
SnapAfter_MuteInPlace(case, s) ==
    CASE case = "inc" -> [s EXCEPT !.volume = IncVolume(s.volume)]
      [] case = "dec" -> [s EXCEPT !.volume = DecVolume(s.volume)]
      [] case = "mute" -> [s EXCEPT !.mute = MuteArg(s.mute)]
      [] OTHER -> s

\* main, lines 248-256: *info after the case taken.  pa_cvolume_inc_clamp
\* and pa_cvolume_dec change info->volume in place and return their argument.
SnapAfter(case, s) ==
    CASE case = "inc" -> [s EXCEPT !.volume = IncVolume(s.volume)]
      [] case = "dec" -> [s EXCEPT !.volume = DecVolume(s.volume)]
      [] OTHER -> s

\* main, lines 247-263: the switch.  A command with no case falls through
\* to the teardown and return 0.
Switch ==
    /\ pc = "switch"
    /\ snap' = SnapAfter(CommandCase(command), snap)
    /\ \/ /\ CommandCase(command) = "mute"
          /\ Issue("set_mute", snap.index, MuteArg(snap.mute))
          /\ pc' = "sm_iterate"
          /\ UNCHANGED <<torn, ctx, exit>>
       \/ /\ CommandCase(command) \in {"inc", "dec"}
          /\ Issue("set_volume", snap.index, snap'.volume)
          /\ pc' = "sv_iterate"
          /\ UNCHANGED <<torn, ctx, exit>>
       \/ /\ CommandCase(command) \notin {"mute", "inc", "dec"}
          /\ ExitOk
          /\ UNCHANGED <<op, ops, issued>>
    /\ UNCHANGED <<state, command, priv, heap, sink_name, sink_info, info,
                   snap0, nrec, lastRec, connOutcome, srvMute, srvVolume, hist>>

LastRequest == issued[Len(issued)]

\* iterate in set_volume or set_mute, one pass: the reply arrives and
\* success_cb is called with the server's verdict, which it drops.  The
\* server changes its sink when it accepts a request for that sink.
SuccessReply ==
    /\ pc \in {"sv_iterate", "sm_iterate"}
    /\ Running(op)
    /\ \E success \in {0, 1} :
         LET applied == success = 1 /\ LastRequest.index = ServerRec.index
         IN /\ srvMute' = IF applied /\ pc = "sm_iterate"
                          THEN LastRequest.arg ELSE srvMute
            /\ srvVolume' = IF applied /\ pc = "sv_iterate"
                            THEN LastRequest.arg ELSE srvVolume
            /\ hist' = IF applied /\ pc = "sm_iterate" /\ snap0.mute = srvMute
                       THEN [hist EXCEPT ![Len(hist)].toggled = TRUE]
                       ELSE hist
            /\ ops' = [Finish(ops, op, "DONE") EXCEPT ![op].success = success]
    /\ UNCHANGED <<pc, state, ctx, command, priv, op, heap, sink_name,
                   sink_info, snap, info, snap0, nrec, lastRec, issued, exit,
                   connOutcome, torn>>

\* set_volume / set_mute after the pump returned (unref), then the rest of
\* main, lines 259-263
MutationReturn ==
    /\ pc \in {"sv_iterate", "sm_iterate"}
    /\ PumpReturns(op)
    /\ ops' = Unref(ops, op)
    /\ ExitOk
    /\ UNCHANGED <<state, command, priv, op, heap, sink_name, sink_info, snap,
                   info, snap0, nrec, lastRec, issued, connOutcome, srvMute,
                   srvVolume, hist>>

\* the program is run again, with any command, against the same server
Restart ==
    /\ pc = "done"
    /\ Len(hist) < MaxRuns
    /\ pc' = "main"
    /\ state' = "CONNECTING"
    /\ ctx' = "UNCONNECTED"
    /\ priv' = [mainloop |-> "uninit", context |-> "uninit"]
    /\ op' = NULL
    /\ ops' = <<>>
    /\ heap' = <<>>
    /\ sink_name' = NULL
    /\ sink_info' = NULL
    /\ snap' = NoRec
    /\ info' = NULL
    /\ snap0' = NoRec
    /\ nrec' = 0
    /\ lastRec' = NoRec
    /\ issued' = <<>>
    /\ exit' = "none"
    /\ connOutcome' = "none"
    /\ torn' = NoTeardown
    /\ command' \in Commands
    /\ hist' = Append(hist, [mute0 |-> srvMute, toggled |-> FALSE])
    /\ UNCHANGED <<srvMute, srvVolume>>

Next ==
    \/ MainSetup
    \/ ConnectIterate
    \/ ConnectExit
    \/ ServerInfoIssue
    \/ PumpContextEvent
    \/ PumpAbort
    \/ ServerInfoReply
    \/ ServerInfoReturn
    \/ SinkInfoIssue
    \/ SinkInfoEvent
    \/ SinkInfoReturn
    \/ Switch
    \/ SuccessReply
    \/ MutationReturn
    \/ Restart

Spec == Init /\ [][Next]_vars

\* The steps the program takes by itself: straight-line code of one thread,
\* which runs on once it can.  A pass of a wait loop needs an event from the
\* library and is no such step.
ProgramStep ==
    \/ MainSetup
    \/ ConnectExit
    \/ ServerInfoIssue
    \/ PumpAbort
    \/ ServerInfoReturn
    \/ SinkInfoIssue
    \/ SinkInfoReturn
    \/ Switch
    \/ MutationReturn

FairSpec == Spec /\ WF_vars(ProgramStep)

----------------------------------------------------------------------------
\* Properties

Mutations == {i \in 1..Len(issued) : issued[i].kind \in {"set_volume", "set_mute"}}

Issued(kind) == \E i \in 1..Len(issued) : issued[i].kind = kind

Nonzero(e) == e \in {"-1", "SIGABRT"}

\* C1: when the connect wait loop is left with state other than CONNECTED,
\* no request of any kind has been or will be issued, no operation handle
\* exists, the switch is not reached (main is over) and the exit code is
\* nonzero.
C1_NoRequestUnlessConnected ==
    connOutcome \notin {"none", "CONNECTED"} =>
        /\ issued = <<>>
        /\ ops = <<>>
        /\ pc = "done"
        /\ Nonzero(exit)

C1_Witness == connOutcome = "ERROR" /\ pc = "done" /\ ctx = "FAILED"

\* C2 (as claimed): once the device-info request has completed without a
\* single data record, get_sink has failed: main holds no snapshot, no
\* mutation is issued and the exit code is nonzero.
C2_ZeroRecordsFail ==
    (Issued("sink_info") /\ pc # "gs_iterate" /\ nrec = 0) =>
        /\ info = NULL
        /\ Mutations = {}
        /\ pc = "done"
        /\ Nonzero(exit)

\* C3: once the server-info request has completed with the name slot still
\* empty, get_default_sink has failed: the device-info request is never
\* issued, no mutation is issued, main is over with a nonzero exit code.
C3_EmptyNameFails ==
    (Issued("server_info") /\ pc # "gds_iterate" /\ sink_name = NULL) =>
        /\ Len(issued) = 1
        /\ info = NULL
        /\ pc = "done"
        /\ Nonzero(exit)

C3_Witness ==
    /\ pc = "done" /\ sink_name = NULL /\ Len(ops) = 1
    /\ ops[1].st = "CANCELLED" /\ exit = "-1"

\* C4: no handle is released twice or while still running; only the handle
\* the pump is waiting for is unreleased; when the process is over every
\* handle created has been released exactly once.
C4_HandlesReleasedOnce ==
    /\ \A i \in 1..Len(ops) :
          /\ ops[i].unrefs <= 1
          /\ ~ops[i].early
          /\ ops[i].unrefs = 0 => (i = op /\ pc \in PumpPcs)
    /\ pc = "done" => \A i \in 1..Len(ops) : ops[i].unrefs = 1

C4_Witness ==
    /\ pc = "done" /\ exit = "0" /\ Len(ops) = 3
    /\ \A i \in 1..3 : ops[i].unrefs = 1

\* C5 (as claimed): when the process is over, every allocation made to
\* receive callback output has been freed exactly once.
C5_AllFreedAtExit ==
    pc = "done" => \A i \in 1..Len(heap) : heap[i].frees = 1

\* the fixed step of Increase and Decrease
VolumeStep == PA_VOLUME_NORM \div 20

SetVolumeRequests(cmd) ==
    {i \in Mutations : command = cmd /\ issued[i].kind = "set_volume"}

\* C6 (as claimed): the vector Increase hands to set_volume has the
\* snapshot's channels, each equal to min(old + step, UI_MAX).
C6_IncPerChannel ==
    \A i \in SetVolumeRequests("CMD_INC") :
        /\ Len(issued[i].arg) = Len(snap0.volume)
        /\ \A c \in 1..Len(snap0.volume) :
              issued[i].arg[c] = Min(snap0.volume[c] + VolumeStep, PA_VOLUME_UI_MAX)

\* C6 (amended): the vector Increase hands to set_volume has the snapshot's
\* channels; every channel that held the snapshot's loudest value equals
\* min(old + step, UI_MAX), and no channel exceeds that value.  Increase is
\* answered by set_volume for the snapshot's index and nothing else.
C6_IncLoudestChannel ==
    /\ \A i \in Mutations : command = "CMD_INC" =>
          issued[i].kind = "set_volume" /\ issued[i].index = snap0.index
    /\ \A i \in SetVolumeRequests("CMD_INC") :
        LET old == snap0.volume
            new == issued[i].arg
            top == Min(SeqMax(old) + VolumeStep, PA_VOLUME_UI_MAX)
        IN /\ Len(new) = Len(old)
           /\ \A c \in 1..Len(old) :
                 /\ old[c] = SeqMax(old) => new[c] = Min(old[c] + VolumeStep, PA_VOLUME_UI_MAX)
                 /\ new[c] <= top

\* an unbalanced snapshot is increased, and clamped for another one
C6_Witness ==
    /\ command = "CMD_INC" /\ pc = "done" /\ exit = "0"
    /\ snap0.volume = <<32768, 65536>> /\ Mutations # {}
    /\ issued[Len(issued)].arg = <<34406, 68812>>

\* C7 (as claimed): the vector Decrease hands to set_volume has the
\* snapshot's channels, each equal to max(old - step, 0).
C7_DecPerChannel ==
    \A i \in SetVolumeRequests("CMD_DEC") :
        /\ Len(issued[i].arg) = Len(snap0.volume)
        /\ \A c \in 1..Len(snap0.volume) :
              issued[i].arg[c] = Max(snap0.volume[c] - VolumeStep, 0)

\* C7 (amended): the vector Decrease hands to set_volume has the snapshot's
\* channels; every channel that held the snapshot's loudest value equals
\* max(old - step, 0); every channel is between 0 and its old value, so
\* nothing wraps around, also below the step.
C7_DecLoudestChannel ==
    /\ \A i \in Mutations : command = "CMD_DEC" =>
          issued[i].kind = "set_volume" /\ issued[i].index = snap0.index
    /\ \A i \in SetVolumeRequests("CMD_DEC") :
        LET old == snap0.volume
            new == issued[i].arg
        IN /\ Len(new) = Len(old)
           /\ \A c \in 1..Len(old) :
                 /\ old[c] = SeqMax(old) => new[c] = Max(old[c] - VolumeStep, 0)
                 /\ 0 <= new[c] /\ new[c] <= old[c]

\* a value below the step is decreased to zero
C7_Witness ==
    /\ command = "CMD_DEC" /\ pc = "done" /\ exit = "0"
    /\ snap0.volume = <<1000>> /\ Mutations # {}
    /\ issued[Len(issued)].arg = <<0>>

\* C8: Mute is answered by exactly one mutation, set_mute for the snapshot's
\* index with the negation of the snapshot's flag, and by no set_volume; and
\* when two successive runs each have the server apply a set_mute built from
\* the server's own flag, the flag is back at its value before the first.
C8_MuteToggles ==
    /\ command = "CMD_MUTE" =>
          /\ \A i \in Mutations :
                /\ issued[i].kind = "set_mute"
                /\ issued[i].index = snap0.index
                /\ issued[i].arg = (IF snap0.mute = 0 THEN 1 ELSE 0)
          /\ Cardinality(Mutations) <= 1
          /\ (info # NULL /\ pc # "switch") => Cardinality(Mutations) = 1
    /\ \A r \in 1..(Len(hist) - 1) :
          (hist[r].toggled /\ hist[r + 1].toggled) =>
              (IF r + 1 < Len(hist) THEN hist[r + 2].mute0 ELSE srvMute)
                 = hist[r].mute0

C8_Witness ==
    /\ Len(hist) >= 2 /\ hist[1].toggled /\ hist[2].toggled
    /\ pc = "done" /\ exit = "0" /\ hist[1].mute0 = 1 /\ srvMute = 1

\* C9: with a snapshot in hand, Increase and Decrease issue exactly one
\* set_volume and Mute exactly one set_mute, for the snapshot's index; any
\* other command issues no mutation and the run ends with exit code 0.
C9_OneMutationPerCommand ==
    info # NULL =>
        /\ Cardinality(Mutations) <= 1
        /\ \A i \in Mutations :
              /\ issued[i].index = snap0.index
              /\ \/ command \in {"CMD_INC", "CMD_DEC"} /\ issued[i].kind = "set_volume"
                 \/ command = "CMD_MUTE" /\ issued[i].kind = "set_mute"
        /\ (command \in {"CMD_INC", "CMD_DEC", "CMD_MUTE"} /\ pc # "switch")
              => Cardinality(Mutations) = 1
        /\ command \notin {"CMD_INC", "CMD_DEC", "CMD_MUTE"} =>
              /\ Mutations = {}
              /\ pc \in {"switch", "done"}
              /\ pc = "done" => exit = "0"

C9_Witness ==
    /\ info # NULL /\ pc = "done" /\ command = "other"
    /\ exit = "0" /\ Mutations = {} /\ nrec > 0

\* C10 (as claimed): a context state outside the expected values is fatal:
\* once state_cb has seen it, ConnectionState is ERROR.
C10_UnexpectedIsFatal ==
    ctx = "UNEXPECTED" => state = "ERROR"

\* a lookup failed: the name slot stayed empty, or the device-info request
\* completed without a data record, or no snapshot came back
LookupFailed ==
    \/ Issued("server_info") /\ pc # "gds_iterate" /\ sink_name = NULL
    \/ Issued("sink_info") /\ pc # "gs_iterate" /\ (nrec = 0 \/ info = NULL)

\* the flag success_cb was called with, if it was called
SuccessFlags == {ops[i].success : i \in {j \in 1..Len(ops) : ops[j].success # -1}}

\* C11 (as claimed): when the process is over, the exit code is nonzero
\* after a connection failure or a lookup failure and 0 otherwise, and it is
\* 0 whichever flag success_cb was called with.
C11_ExitCodeTellsFailure ==
    pc = "done" =>
        /\ (connOutcome # "CONNECTED" \/ LookupFailed) => Nonzero(exit)
        /\ SuccessFlags # {} => exit = "0"

\* C12 (as claimed): once get_default_sink has returned the snapshot, its
\* contents never change.
C12_SnapshotImmutable ==
    info # NULL => snap = snap0

\* C12 (amended): once get_default_sink has returned the snapshot, its index
\* and mute flag never change, and its volume changes only when Increase or
\* Decrease computes the new vector in place, which is the vector handed to
\* set_volume; all three fields come from one record.
C12_SnapshotFrame ==
    info # NULL =>
        /\ snap.index = snap0.index
        /\ snap.mute = snap0.mute
        /\ snap.volume # snap0.volume =>
              /\ command \in {"CMD_INC", "CMD_DEC"}
              /\ \E i \in Mutations : issued[i].arg = snap.volume
        /\ command \notin {"CMD_INC", "CMD_DEC"} => snap = snap0
        /\ snap0 \in Garbage \/ snap0 = lastRec

\* Mute has been issued and answered with the snapshot as it was returned
C12_Witness ==
    /\ info # NULL /\ pc = "done" /\ command = "CMD_MUTE" /\ exit = "0"
    /\ nrec > 0 /\ snap = snap0 /\ Cardinality(Mutations) = 1

Unreleased == {i \in 1..Len(ops) : ops[i].unrefs = 0}

\* C13: at most one handle is running or unreleased; while a pump waits,
\* every handle but the one it waits for is terminal and released, so the
\* device-info request is issued only after the server-info handle is.
C13_OneOperationInFlight ==
    /\ Cardinality(Unreleased) <= 1
    /\ Cardinality({i \in 1..Len(ops) : ops[i].st = "RUNNING"}) <= 1
    /\ \A i \in 1..Len(ops) :
          (pc \in PumpPcs /\ i # op) =>
              ops[i].st \in {"DONE", "CANCELLED"} /\ ops[i].unrefs = 1
    /\ Issued("sink_info") =>
          Len(ops) >= 1 /\ ops[1].st \in {"DONE", "CANCELLED"} /\ ops[1].unrefs = 1

\* the pump of get_sink waits while the server-info handle is released
C13_Witness ==
    /\ pc = "gs_iterate" /\ Running(op) /\ op = 2
    /\ ops[1].st = "DONE" /\ ops[1].unrefs = 1

\* C14: a step that takes the program out of a pump with a handle finds the
\* operation done or cancelled, whatever was dispatched before.
C14_PumpReturnsTerminal ==
    [][(pc \in PumpPcs /\ pc' \notin PumpPcs /\ op # NULL)
          => ops[op].st \in {"DONE", "CANCELLED"}]_vars

\* the pump of get_sink has returned after passes that left it running
C14_Witness ==
    /\ pc = "switch" /\ nrec = 2 /\ Len(ops) = 2 /\ ops[2].st = "DONE"

\* the program waits for the library: in the connect wait loop with state
\* CONNECTING, or in the pump with the operation running
Waiting ==
    \/ pc = "connect_wait" /\ state = "CONNECTING"
    \/ pc \in PumpPcs /\ Running(op)

\* C15 (as claimed): if the program is again and again not waiting for the
\* library (the connection reports ready or failed, every operation leaves
\* RUNNING), every run that starts reaches process exit by a return from main,
\* that is after the teardown.
C15_TerminatesAfterTeardown ==
    ([]<>(~Waiting)) => [](pc = "main" => <>(pc = "done" /\ exit \in {"0", "-1"}))

\* C16: during the device-info request the snapshot is what malloc left until
\* the first record and the last record (index, mute and volume of that one
\* record) from then on, also after the end-of-list or error invocation that
\* completes the request; the snapshot get_sink returns after at least one
\* record is that last record.
C16_LastRecordWins ==
    /\ pc = "gs_iterate" =>
          IF nrec = 0 THEN snap \in Garbage ELSE snap = lastRec
    /\ (info # NULL /\ nrec > 0) => snap0 = lastRec

\* two records, the default sink's then another sink's, then the end of the
\* list; get_sink has returned
C16_Witness ==
    /\ pc = "switch" /\ nrec = 2 /\ ops[2].st = "DONE"
    /\ lastRec.index = 7 /\ snap0 = lastRec /\ info # NULL

\* a request that failed: its operation was cancelled, or it is the
\* device-info request and completed without a record
FailedRequests ==
    {i \in 1..Len(ops) :
        \/ ops[i].st = "CANCELLED"
        \/ ops[i].kind = "sink_info" /\ ops[i].st = "DONE" /\ nrec = 0}

KindAt(i) ==
    CASE i = 1 -> {"server_info"}
      [] i = 2 -> {"sink_info"}
      [] OTHER -> {"set_volume", "set_mute"}

\* C17 (as claimed): the requests issued are a prefix of server-info,
\* device-info, one mutation; a request is issued only when every earlier
\* operation is terminal and released; after a failed request no later
\* request is issued; after the teardown nothing is issued.
C17_RequestsArePrefix ==
    /\ Len(issued) <= 3
    /\ \A i \in 1..Len(issued) : issued[i].kind \in KindAt(i)
    /\ \A i \in 1..Len(ops) :
          i < Len(issued) => ops[i].st # "RUNNING" /\ ops[i].unrefs = 1
    /\ \A i \in FailedRequests : Len(issued) <= i
    /\ torn # NoTeardown => pc = "done"

\* C18 (as claimed): every request was issued with ConnectionState CONNECTED.
C18_IssuedWhileConnected ==
    \A i \in 1..Len(issued) : issued[i].state = "CONNECTED"

\* the loop condition of line 239 is tested and found false
ConnectLoopExit == pc = "connect_wait" /\ pc' # "connect_wait"

\* C19 (as claimed): the connect wait loop is left only with ConnectionState
\* other than CONNECTING, CONNECTED standing for the context's ready state,
\* and it is eventually left once the context is ready, failed or terminated.
C19_ExitsOnReadyFailedTerminated ==
    /\ [][ConnectLoopExit => state # "CONNECTING"]_vars
    /\ [](pc = "connect_wait" => ((state = "CONNECTED") <=> (ctx = "READY")))
    /\ ((pc = "connect_wait" /\ ctx \in {"READY", "FAILED", "TERMINATED"})
            ~> (pc # "connect_wait"))

\* C19 (amended): the connect wait loop is left only with ConnectionState
\* other than CONNECTING; in the loop ConnectionState is CONNECTED exactly
\* when the context is ready and ERROR exactly when it has failed, so every
\* other context state, terminated included, leaves it CONNECTING; the loop
\* is eventually left once the context is ready or failed.
C19_ExitsOnReadyFailed ==
    /\ [][ConnectLoopExit => (state # "CONNECTING" /\ connOutcome' = state)]_vars
    /\ [](pc = "connect_wait" =>
            /\ (state = "CONNECTED") <=> (ctx = "READY")
            /\ (state = "ERROR") <=> (ctx = "FAILED"))
    /\ ((pc = "connect_wait" /\ ctx \in {"READY", "FAILED"})
            ~> (pc # "connect_wait"))

\* the loop was left with ERROR after the context failed while connecting
C19_Witness ==
    /\ connOutcome = "ERROR" /\ ctx = "FAILED" /\ state = "ERROR"
    /\ pc = "done" /\ exit = "-1" /\ priv.context = "obj"

\* C20 (as claimed): when main has returned, the teardown has disconnected
\* the context exactly if ConnectionState is CONNECTED, released the context
\* exactly if it was created, freed the loop exactly if it was created, each
\* once, and touched nothing else.
C20_TeardownOnlyCreated ==
    (pc = "done" /\ exit \in {"0", "-1"}) =>
        /\ torn.disconnect = (IF state = "CONNECTED" THEN 1 ELSE 0)
        /\ torn.ctx_unref = (IF priv.context = "obj" THEN 1 ELSE 0)
        /\ torn.ml_free = (IF priv.mainloop = "obj" THEN 1 ELSE 0)
        /\ torn.wild = 0

=============================================================================
